---------------------------- MODULE Spec2Model ----------------------------
(***************************************************************************)
(* Model of id_api.py (ripple-id): get_any_name resolves a ripple address  *)
(* to a name.  It first looks the address up in ADDRESS_DB, otherwise it   *)
(* spawns two greenlets (get_domain and get_nickname, each wrapped by      *)
(* cachify), joins them with a timeout and picks the best value of the     *)
(* shared result dict.  Greenlets that are still running when the timeout  *)
(* elapses keep running in the background.                                 *)
(*                                                                         *)
(* Calls of get_any_name are served one after the other; the greenlets of  *)
(* earlier calls may still be running.  Every blocking call (redis get,    *)
(* redis setex, the HTTP requests of a resolver) is a point where          *)
(* greenlets interleave.  The model keeps the call in progress or last     *)
(* returned (cur) and every greenlet that is still running; the finished   *)
(* greenlets of a call are collected when it returns.                      *)
(***************************************************************************)
EXTENDS Integers, Sequences, FiniteSets, TLC

\* ------------------------------------------------------------- bounds
\* Number of greenlets of earlier calls that may still be running when a
\* call of get_any_name begins.
MaxBackground == 1
\* The clock shows at most MaxSeconds seconds past a multiple of
\* CACHE_TIMEOUT, and a caller passes a timeout of at most MaxSeconds.
MaxSeconds == 0
\* Largest number of candidate ripple.txt urls of a domain.
MaxUrls == 2

\* ---------------------------------------------------------- constants
CACHE_TIMEOUT == 3600 * 12

\* One of the well-known addresses, and one address that is not well-known.
Bitstamp == "rvYAfWj5gh67oV6fW32ZzP3Aw4Eubs59B"
X1 == "X1"
X2 == "X2"

ADDRESS_DB == [a \in {Bitstamp} |-> "Bitstamp"]

Addresses == {Bitstamp, X1}

\* Greenlet 1 runs get_domain and greenlet 2 get_nickname for the call in
\* progress (or last returned); the others are greenlets of earlier calls.
TaskIds == 1..(2 + MaxBackground)
CurTasks == {1, 2}
OldTasks == TaskIds \ CurTasks
Timeouts == 0..MaxSeconds
TimeSteps == {1, CACHE_TIMEOUT}

\* The resolvers get_any_name runs, and the key cachify is given for each.
Resolvers == {"get_domain", "get_nickname"}
\* Faulty variant: both wrappers are given the key 'domain'.
KeyOfDomain(f) == <<"domain">>

\* key = tuplify(key): 'domain' and 'nickname' are str, so each is a 1-tuple.
\* "func" is a wrapper cachify(func, channel, ('domain', 'name')) of a func
\* that returns two values, as the docstring of cachify provides for;
\* get_any_name makes none, it is looked at on its own in SpecCachify.
KeyOf(f) ==
  IF f = "get_domain" THEN <<"domain">>
  ELSE IF f = "func" THEN <<"domain", "name">>
  ELSE <<"nickname">>

\* ------------------------------------------------------ python values
EmptyDict == [k \in {} |-> ""]

\* dict.get(key) with a default of None seen as falsy: the value or "".
DictGet(d, k) == IF k \in DOMAIN d THEN d[k] ELSE ""

\* d[k] = v
DictSet(d, k, v) == [x \in DOMAIN d \cup {k} |-> IF x = k THEN v ELSE d[x]]

\* d.update(e)
DictUpdate(d, e) == [x \in DOMAIN d \cup DOMAIN e |-> IF x \in DOMAIN e THEN e[x] ELSE d[x]]

\* What a resolver call ends with: it returns None, a str or a tuple of
\* str, or raises.  vals holds the str, or the members of the tuple.
None == [kind |-> "None", vals |-> <<>>]
Raise == [kind |-> "Raise", vals |-> <<>>]
Str(s) == [kind |-> "str", vals |-> <<s>>]
Tuple(t) == [kind |-> "tuple", vals |-> t]
NotCalled == [kind |-> "NotCalled", vals |-> <<>>]

\* tuplify = lambda v: v if isinstance(v, tuple) else (v,)
\* (None,) is written as the string redis would store for it.
tuplify(v) ==
  IF v.kind = "tuple" THEN v.vals
  ELSE IF v.kind = "str" THEN <<v.vals[1]>>
  ELSE <<"None">>

\* zip(key, result): as many pairs as the shorter of the two
Min(a, b) == IF a < b THEN a ELSE b
Zip(key, result) == [i \in 1..Min(Len(key), Len(result)) |-> <<key[i], result[i]>>]

\* ----------------------------------------------------------- upstream
\* What one HTTP GET ends with: a RequestException, or a response.
Statuses == {200, 404, 500}
Fetches == {[exc |-> TRUE, status_code |-> 0]}
             \cup {[exc |-> FALSE, status_code |-> c] : c \in Statuses}

Domains == {"", "example.com"}
XNames == {"", "Example Inc"}
Usernames == {"", "alice"}

\* Sequences over S of length 1..n
SeqsUpTo(S, n) == UNION {[1..k -> S] : k \in 1..n}

\* What ripple-rest and the domain's web server answer for one get_domain
\* call: the settings request, whether its body parses as JSON with the
\* keys the code reads, the success flag, the domain of the account, the
\* fetch of each candidate ripple.txt url in order, and the accounts and
\* x-name the ripple.txt lists.
DomainWorlds ==
  [settings : Fetches, json_ok : BOOLEAN, success : BOOLEAN, domain : Domains,
   txt : SeqsUpTo(Fetches, MaxUrls), accounts : SUBSET {X1, X2}, xname : XNames]

\* What id.ripple.com answers for one get_nickname call.
NicknameWorlds == [user : Fetches, json_ok : BOOLEAN, username : Usernames]

\* The for loop of get_domain over rippletxt.get_urls(domain): found is
\* whether the loop ended by break, at is the url it broke at.
RECURSIVE TxtLoop(_, _, _)
TxtLoop(txt, i, possible_temp_error) ==
  IF i > Len(txt)
  THEN [found |-> FALSE, at |-> 0, possible_temp_error |-> possible_temp_error]
  ELSE IF txt[i].exc
  THEN TxtLoop(txt, i + 1, possible_temp_error)
  ELSE IF txt[i].status_code # 200
  THEN TxtLoop(txt, i + 1, txt[i].status_code # 404)
  ELSE [found |-> TRUE, at |-> i, possible_temp_error |-> txt[i].status_code # 404]

\* Faulty variant: the accounts of the ripple.txt are not looked at.
ListedAlways(address, w) == TRUE

\* address in cfg.get('accounts', [])
Listed(address, w) == address \in w.accounts

get_domain(address, w) ==
  IF w.settings.exc THEN Raise
  ELSE IF w.settings.status_code # 200 THEN None
  ELSE IF ~w.json_ok THEN Raise
  ELSE IF ~w.success THEN None
  ELSE IF w.domain = "" THEN Tuple(<<"", "">>)
  ELSE LET loop == TxtLoop(w.txt, 1, FALSE) IN
       IF ~loop.found
       THEN IF loop.possible_temp_error THEN None ELSE Tuple(<<"", "">>)
       ELSE IF ~Listed(address, w) THEN Tuple(<<"", "">>)
       ELSE Tuple(<<w.domain, w.xname>>)

\* Faulty variant: the nickname without its mark.
TildeMissing(u) == u

\* '~%s' % nickname
Tilde(u) == "~" \o u

get_nickname(address, w) ==
  IF w.user.exc THEN Raise
  ELSE IF w.user.status_code # 200 THEN None
  ELSE IF ~w.json_ok THEN Raise
  ELSE IF w.username # "" THEN Str(Tilde(w.username)) ELSE Str("")

\* Every way a call of resolver f for address can end.
Outcomes[f \in Resolvers, address \in Addresses] ==
  IF f = "get_domain"
  THEN {get_domain(address, w) : w \in DomainWorlds}
  ELSE {get_nickname(address, w) : w \in NicknameWorlds}

\* -------------------------------------------------------------- state
VARIABLES
  now,    \* the clock, in seconds
  cache,  \* redis: key -> [v, exp], the value and the time the entry expires
  cur,    \* the call of get_any_name in progress, or the last one returned
  task,   \* the greenlets: those of cur, and those of earlier calls
  track,  \* which history is recorded: "", "prev", "neg" or "late"
  prev,   \* history: what the call before cur returned
  neg,    \* history: a call returned '' with both negatives cached
  late,   \* history: the nickname keys last written by a greenlet whose
          \* call had returned
  redis_cache,  \* the cache backend: "StrictRedis" or "FakeRedis"
  world   \* what the upstream answers, where one resolver call is looked at

vars == <<now, cache, cur, task, track, prev, neg, late, redis_cache, world>>

\* '%s:%s' % (address, k)
CacheKey(address, k) == <<address, k>>

\* Faulty variant: the get of FakeRedis, which holds nothing.
redis_get_nothing(key) == <<>>

\* Faulty variant: a stub whose get returns a value.
FakeRedis_get_empty(key) == <<"">>

\* FakeRedis.get: return None
FakeRedis_get(key) == <<>>

\* FakeRedis.setex: return None; nothing is kept
FakeRedis_setex(key, ttl, v) == cache

\* redis_cache.get(key): None (here: <<>>) or the value
redis_get(key) ==
  IF redis_cache = "FakeRedis" THEN FakeRedis_get(key)
  ELSE IF key \in DOMAIN cache THEN <<cache[key].v>> ELSE <<>>

\* Faulty variant: a setex that keeps nothing.
redis_setex_nothing(key, ttl, v) == cache

\* redis_cache.setex(key, ttl, v)
redis_setex(key, ttl, v) ==
  IF redis_cache = "FakeRedis" THEN FakeRedis_setex(key, ttl, v)
  ELSE [x \in DOMAIN cache \cup {key} |->
          IF x = key THEN [v |-> v, exp |-> now + ttl] ELSE cache[x]]

\* The cache keys the two wrapped resolvers of a call read and write.
AllKeys(address) ==
  {CacheKey(address, KeyOf(f)[i]) : f \in Resolvers, i \in 1..1}

\* state: "idle" before the first call, "waiting" in joinall, "done" once
\* returned.  result is the dict the greenlets write to, ret the value
\* returned, how the way the call returned ("override", "joined": all
\* greenlets finished, "timeout"), calls the resolvers its greenlets have
\* called.
\* History: warm is whether every key was cached when the call began and
\* neither an expiry nor a greenlet of another call has changed the cache
\* since; after is what neg was when the call began ("live", "expired":
\* the negatives had expired, nothing was cached and no greenlet running).
NoCall == [state |-> "idle", address |-> "", deadline |-> 0, result |-> EmptyDict,
           ret |-> "", how |-> "", calls |-> {}, raised |-> FALSE,
           warm |-> FALSE, after |-> ""]

\* i: the index of the key being read or of the pair being written.
\* cached_result: the dict of cached values.  result: what func(address)
\* ended with.
NoTask == [f |-> "", address |-> "", pc |-> "none", i |-> 0,
           cached_result |-> EmptyDict, result |-> NotCalled]

\* until: when the first of the two negative entries expires; 0: no call has
\* returned '' with both negatives cached yet; -1: the entry has expired; -2:
\* a call has begun since.  quiet: no greenlet was running when that call
\* returned.
NoNeg == [until |-> 0, quiet |-> FALSE]
Expired == [until |-> -1, quiet |-> FALSE]
Over == [until |-> -2, quiet |-> FALSE]

NoPrev == [warm |-> FALSE, ret |-> "", how |-> ""]

\* No resolver call is looked at on its own.
NoWorld == <<>>

\* redis_cache is chosen once, when the module is loaded (REDIS_URL set or not).
InitAs(tr, backend) ==
  /\ now = 0
  /\ cache = [k \in {} |-> [v |-> "", exp |-> 0]]
  /\ cur = NoCall
  /\ task = [id \in TaskIds |-> NoTask]
  /\ track = tr
  /\ prev = NoPrev
  /\ neg = NoNeg
  /\ late = {}
  /\ redis_cache = backend
  /\ world = NoWorld

InitWith(tr) == InitAs(tr, "StrictRedis")

Init == InitWith("")

Finished(t) == t.pc \in {"none", "done", "failed"}
Running(t) == t.pc \in {"get", "call", "setex"}
RunningIds == {id \in TaskIds : Running(task[id])}

\* ---------------------------------------------------------- get_any_name
\* Faulty variant: the locally-known names are not looked up.
IsWellKnownNever(address) == FALSE

\* address in ADDRESS_DB
IsWellKnown(address) == address \in DOMAIN ADDRESS_DB

\* Faulty variant: the domain is looked at before the nickname.
PickBestDomainFirst(result) ==
  IF DictGet(result, "name") # "" THEN result["name"]
  ELSE IF DictGet(result, "domain") # "" THEN result["domain"]
  ELSE IF DictGet(result, "nickname") # "" THEN result["nickname"]
  ELSE ""

\* for key in ['name', 'nickname', 'domain']: if result.get(key): return ...
PickBest(result) ==
  IF DictGet(result, "name") # "" THEN result["name"]
  ELSE IF DictGet(result, "nickname") # "" THEN result["nickname"]
  ELSE IF DictGet(result, "domain") # "" THEN result["domain"]
  ELSE ""

\* Faulty variant: joinall without a timeout.
JoinDoneNoTimeout == \A id \in CurTasks : task[id].pc \in {"none", "done", "failed"}

\* gevent.joinall(greenlets, timeout=timeout) returns: all greenlets are
\* finished (a greenlet that raised is finished), or the timeout has elapsed.
JoinDone ==
  \/ \A id \in CurTasks : Finished(task[id])
  \/ now >= cur.deadline

\* run_address_resolver(cachify(f, result, key), address): a new greenlet
Spawn(f, address) ==
  [NoTask EXCEPT !.f = f, !.address = address, !.pc = "get", !.i = 1]

\* A greenlet of an earlier call: of what its resolver returned, only the
\* values cachify still writes matter.
Detached(t) ==
  IF t.result.kind \in {"str", "tuple"}
  THEN [t EXCEPT !.result = Tuple([i \in DOMAIN Zip(KeyOf(t.f), tuplify(t.result)) |->
                                     tuplify(t.result)[i]])]
  ELSE t

\* An order on the running greenlets; greenlets of the same rank are equal
\* once detached.
Rank(t) ==
  (IF t.f = "get_domain" THEN 0 ELSE 12)
  + (IF t.pc = "get" THEN 0 ELSE IF t.pc = "call" THEN 4 ELSE 8)
  + t.i + (IF t.pc = "setex" /\ tuplify(t.result)[t.i] # "" THEN 2 ELSE 0)

\* The running greenlets in the order of their ranks, as many as S holds
RECURSIVE Sorted(_)
Sorted(S) ==
  IF S = {} THEN <<>>
  ELSE LET m == CHOOSE x \in S : \A y \in S : Rank(task[x]) < Rank(task[y])
                                    \/ (Rank(task[x]) = Rank(task[y]) /\ x <= y)
       IN <<Detached(task[m])>> \o Sorted(S \ {m})

\* The greenlets still running when a call begins go on as greenlets of an
\* earlier call; the finished ones are collected.
Background ==
  LET run == Sorted(RunningIds)
  IN [id \in OldTasks |-> IF id - 2 <= Len(run) THEN run[id - 2] ELSE NoTask]

\* The clock values of the model.
InHorizon(t) == t <= CACHE_TIMEOUT + MaxSeconds /\ t % CACHE_TIMEOUT <= MaxSeconds

\* A call of get_any_name begins, the one before it having returned.
Resolve(address, timeout) ==
  /\ cur.state # "waiting"
  /\ Cardinality(RunningIds) <= MaxBackground
  /\ InHorizon(now + timeout)
  /\ IF IsWellKnown(address)
     THEN /\ cur' = [NoCall EXCEPT !.state = "done", !.address = address,
                       !.ret = ADDRESS_DB[address], !.how = "override"]
          /\ task' = [id \in TaskIds |->
                        IF id \in CurTasks THEN NoTask ELSE Background[id]]
          /\ prev' = NoPrev
     ELSE /\ cur' = [NoCall EXCEPT
                       !.state = "waiting", !.address = address,
                       !.deadline = now + timeout,
                       !.warm = /\ track = "prev"
                                /\ AllKeys(address) \subseteq DOMAIN cache,
                       !.after = IF track # "neg" THEN ""
                                 ELSE IF neg.until > now THEN "live"
                                 ELSE IF /\ neg = Expired
                                         /\ AllKeys(address) \cap DOMAIN cache = {}
                                         /\ RunningIds = {}
                                 THEN "expired" ELSE ""]
          /\ task' = [id \in TaskIds |->
                        IF id = 1 THEN Spawn("get_domain", address)
                        ELSE IF id = 2 THEN Spawn("get_nickname", address)
                        ELSE Background[id]]
          /\ prev' = IF track = "prev" /\ cur.address = address /\ cur.warm
                     THEN [warm |-> TRUE, ret |-> cur.ret, how |-> cur.how]
                     ELSE NoPrev
  /\ neg' = IF neg = Expired /\ ~IsWellKnown(address) THEN Over ELSE neg
  /\ UNCHANGED <<now, cache, track, late, redis_cache, world>>

\* Both definitive negatives of address are cached.
NegativesCached(address) ==
  \A k \in AllKeys(address) : k \in DOMAIN cache /\ cache[k].v = ""

\* When the first of the cached entries of address expires
FirstExpiry(address) ==
  CHOOSE e \in {cache[k].exp : k \in AllKeys(address)} :
    \A k \in AllKeys(address) : e <= cache[k].exp

\* joinall returns and get_any_name picks the best result; the finished
\* greenlets are collected.
JoinReturn ==
  LET ret == PickBest(cur.result)
      all == \A id \in CurTasks : Finished(task[id])
  IN /\ cur.state = "waiting"
     /\ JoinDone
     /\ cur' = [cur EXCEPT !.state = "done", !.deadline = 0, !.ret = ret,
                           !.how = IF all THEN "joined" ELSE "timeout",
                           !.raised = /\ track = ""
                                      /\ \E id \in CurTasks : task[id].pc = "failed"]
     /\ task' = [id \in TaskIds |-> IF Running(task[id]) THEN task[id] ELSE NoTask]
     /\ neg' = IF /\ track = "neg"
                  /\ neg.until = 0 /\ all /\ ret = ""
                  /\ NegativesCached(cur.address)
                  /\ InHorizon(FirstExpiry(cur.address))
               THEN [until |-> FirstExpiry(cur.address), quiet |-> RunningIds = {}]
               ELSE neg
     /\ UNCHANGED <<now, cache, track, prev, late, redis_cache, world>>

\* --------------------------------------------------------------- cachify
\* Faulty variant: the wrapper never returns the cached values.
CacheHitNever(key, cached_result) == FALSE

\* Faulty variant: only a non-empty cached value counts as cached.
CacheHitTruthy(key, cached_result) ==
  \E k \in DOMAIN cached_result : cached_result[k] # ""

\* if cached_result: (a dict is true when it is not empty)
CacheHit(key, cached_result) == DOMAIN cached_result # {}

\* Faulty variant: what a greenlet puts in its channel is lost.
ChannelDropped(id, d) == cur

\* channel[k] = v, or channel.update(d): the channel of a greenlet of cur is
\* cur.result; the dict of an earlier call is read by nobody.
Channel(id, d) ==
  IF id \in CurTasks THEN [cur EXCEPT !.result = DictUpdate(@, d)] ELSE cur

\* A greenlet ends: it is collected unless its call is still in joinall.
End(id, t) == IF id \in CurTasks /\ cur.state = "waiting" THEN t ELSE NoTask

\* redis_cache.get returns for the i-th key; after the last key the
\* wrapper either copies the cached values to the channel and returns, or
\* calls the resolver.
CacheGet(id) ==
  LET t == task[id]
      key == KeyOf(t.f)
      k == key[t.i]
      v == redis_get(CacheKey(t.address, k))
      cached_result == IF v # <<>> THEN DictSet(t.cached_result, k, v[1])
                       ELSE t.cached_result
  IN /\ t.pc = "get"
     /\ IF t.i < Len(key)
        THEN /\ task' = [task EXCEPT ![id].i = t.i + 1,
                                     ![id].cached_result = cached_result]
             /\ UNCHANGED cur
        ELSE IF CacheHit(key, cached_result)
        THEN /\ task' = [task EXCEPT ![id] = End(id,
                           [t EXCEPT !.pc = "done", !.i = 0,
                                     !.cached_result = cached_result])]
             /\ cur' = Channel(id, cached_result)
        ELSE /\ task' = [task EXCEPT ![id].pc = "call", ![id].i = 0,
                                     ![id].cached_result = cached_result]
             /\ cur' = IF id \in CurTasks
                       THEN [cur EXCEPT !.calls = @ \cup {t.f}] ELSE cur
     /\ UNCHANGED <<now, cache, track, prev, neg, late, redis_cache, world>>

\* Faulty variant: the wrapper does not test for None.
IsUnknownNever(result) == FALSE

\* if result is None: return
IsUnknown(result) == result.kind = "None"

\* Faulty variant: an exception of func is not told from a value.
RaisesNever(result) == FALSE

\* func(address) raises: the exception leaves wrapped and ends the greenlet
Raises(result) == result.kind = "Raise"

\* func(address) ends with result.  None: nothing is written.  An exception
\* ends the greenlet.  Otherwise the first pair is written to the channel
\* and the greenlet blocks in redis_cache.setex.
FuncReturn(id, result) ==
  LET t == task[id]
      pairs == Zip(KeyOf(t.f), tuplify(result))
  IN /\ t.pc = "call"
     /\ IF Raises(result)
        THEN /\ task' = [task EXCEPT ![id] = End(id,
                           [t EXCEPT !.pc = "failed", !.result = result])]
             /\ UNCHANGED cur
        ELSE IF IsUnknown(result) \/ Len(pairs) = 0
        THEN /\ task' = [task EXCEPT ![id] = End(id,
                           [t EXCEPT !.pc = "done", !.result = result])]
             /\ UNCHANGED cur
        ELSE /\ task' = [task EXCEPT ![id] =
                           IF id \in CurTasks
                           THEN [t EXCEPT !.pc = "setex", !.i = 1, !.result = result]
                           ELSE Detached([t EXCEPT !.pc = "setex", !.i = 1,
                                                   !.result = result])]
             /\ cur' = Channel(id, DictSet(EmptyDict, pairs[1][1], pairs[1][2]))
     /\ UNCHANGED <<now, cache, track, prev, neg, late, redis_cache, world>>

\* History: the cache is changed by an expiry or by a greenlet of another call.
Changed(id, c) == IF id \in CurTasks THEN c ELSE [c EXCEPT !.warm = FALSE]

\* redis_cache.setex returns for the i-th pair; the next pair, if any, is
\* written to the channel and the greenlet blocks in setex again.
SetexReturn(id) ==
  LET t == task[id]
      pairs == Zip(KeyOf(t.f), tuplify(t.result))
  IN /\ t.pc = "setex"
     /\ cache' = redis_setex(CacheKey(t.address, pairs[t.i][1]),
                             CACHE_TIMEOUT, pairs[t.i][2])
     /\ IF t.i < Len(pairs)
        THEN /\ task' = [task EXCEPT ![id].i = t.i + 1]
             /\ cur' = Changed(id, Channel(id,
                         DictSet(EmptyDict, pairs[t.i + 1][1], pairs[t.i + 1][2])))
        ELSE /\ task' = [task EXCEPT ![id] = End(id, [t EXCEPT !.pc = "done", !.i = 0])]
             /\ cur' = Changed(id, cur)
     /\ prev' = IF id \in CurTasks THEN prev ELSE NoPrev
     /\ late' = IF track # "late" \/ pairs[t.i][1] # "nickname" THEN late
                ELSE IF id \in OldTasks \/ cur.state # "waiting"
                THEN late \cup {CacheKey(t.address, pairs[t.i][1])}
                ELSE late \ {CacheKey(t.address, pairs[t.i][1])}
     /\ UNCHANGED <<now, track, neg, redis_cache, world>>

\* ------------------------------------------------------------------ time
\* The entries redis still holds at time t.
Unexpired(t) == {k \in DOMAIN cache : cache[k].exp > t}

\* d seconds pass.  The timer of a waiting joinall fires when it is due, so
\* the clock does not pass the deadline of a call that is still waiting.
\* redis drops the entries that have expired.
Tick(d) ==
  /\ InHorizon(now + d)
  /\ cur.state = "waiting" => now + d <= cur.deadline
  /\ now' = now + d
  /\ cache' = [k \in Unexpired(now + d) |-> cache[k]]
  /\ IF Unexpired(now + d) # DOMAIN cache
     THEN cur' = [cur EXCEPT !.warm = FALSE] /\ prev' = NoPrev
     ELSE UNCHANGED <<cur, prev>>
  /\ neg' = IF neg.until > 0 /\ now + d >= neg.until THEN Expired ELSE neg
  /\ late' = late \cap Unexpired(now + d)
  /\ UNCHANGED <<task, track, redis_cache, world>>

Next ==
  \/ \E address \in Addresses, timeout \in Timeouts : Resolve(address, timeout)
  \/ JoinReturn
  \/ \E id \in TaskIds : CacheGet(id)
  \/ \E id \in TaskIds :
       /\ task[id].pc = "call"
       /\ \E result \in Outcomes[task[id].f, task[id].address] : FuncReturn(id, result)
  \/ \E id \in TaskIds : SetexReturn(id)
  \/ \E d \in TimeSteps : Tick(d)

Spec == Init /\ [][Next]_vars

\* The same program, with the history of the call before recorded.
SpecPrev == InitWith("prev") /\ [][Next]_vars

\* The same program, with the history of cached negatives recorded.
SpecNeg == InitWith("neg") /\ [][Next]_vars

\* The same program, with the cache writes of outlived greenlets recorded.
SpecLate == InitWith("late") /\ [][Next]_vars

\* The same program started without REDIS_URL: redis_cache is FakeRedis.
SpecFake == InitAs("", "FakeRedis") /\ [][Next]_vars

\* One resolver call alone: a wrapper of get_domain or of get_nickname has
\* found nothing cached and calls its resolver, which the upstream answers
\* as world says; the wrapper then writes what the resolver returned.
NoDomainWorld ==
  [settings |-> [exc |-> TRUE, status_code |-> 0], json_ok |-> FALSE, success |-> FALSE,
   domain |-> "", txt |-> <<[exc |-> TRUE, status_code |-> 0]>>, accounts |-> {},
   xname |-> ""]
NoNicknameWorld ==
  [user |-> [exc |-> TRUE, status_code |-> 0], json_ok |-> FALSE, username |-> ""]

Worlds ==
  {[f |-> "get_domain", domain |-> w, nickname |-> NoNicknameWorld] : w \in DomainWorlds}
  \cup
  {[f |-> "get_nickname", domain |-> NoDomainWorld, nickname |-> w] : w \in NicknameWorlds}

\* What the resolver called returns in world
Answer ==
  IF world.f = "get_domain" THEN get_domain(cur.address, world.domain)
  ELSE get_nickname(cur.address, world.nickname)

InitResolver ==
  /\ now = 0
  /\ cache = [k \in {} |-> [v |-> "", exp |-> 0]]
  /\ world \in Worlds
  /\ cur = [NoCall EXCEPT !.state = "waiting", !.address = X1, !.calls = {world.f}]
  /\ task = [id \in TaskIds |->
               IF \/ id = 1 /\ world.f = "get_domain"
                  \/ id = 2 /\ world.f = "get_nickname"
               THEN [Spawn(world.f, X1) EXCEPT !.pc = "call", !.i = 0]
               ELSE NoTask]
  /\ track = "resolver"
  /\ prev = NoPrev
  /\ neg = NoNeg
  /\ late = {}
  /\ redis_cache = "StrictRedis"

NextResolver ==
  \/ \E id \in CurTasks : task[id].pc = "call" /\ FuncReturn(id, Answer)
  \/ \E id \in CurTasks : SetexReturn(id)

SpecResolver == InitResolver /\ [][NextResolver]_vars

\* The merge of get_any_name alone: joinall has nothing to wait for and the
\* result dict holds any strings under any of the three keys.
Names == {"", "Example Inc", "~alice", "example.com"}
MergeKeys == {"name", "nickname", "domain"}
ResultMaps == UNION {[K -> Names] : K \in SUBSET MergeKeys}

InitMerge ==
  /\ now = 0
  /\ cache = [k \in {} |-> [v |-> "", exp |-> 0]]
  /\ cur \in {[NoCall EXCEPT !.state = "waiting", !.address = X1, !.result = m] :
                m \in ResultMaps}
  /\ task = [id \in TaskIds |-> NoTask]
  /\ track = "merge"
  /\ prev = NoPrev
  /\ neg = NoNeg
  /\ late = {}
  /\ redis_cache = "StrictRedis"
  /\ world = NoWorld

SpecMerge == InitMerge /\ [][JoinReturn]_vars

\* cachify alone, given a tuple of keys: a wrapper of a func returning two
\* values under the keys ('domain', 'name') and a wrapper of get_nickname
\* run against a cache that holds any of the three keys.
CachedValues(k) ==
  IF k = "domain" THEN Domains
  ELSE IF k = "name" THEN XNames
  ELSE {"", Tilde("alice")}

Caches ==
  UNION {[{CacheKey(X1, k) : k \in K} ->
            [v : Names, exp : {CACHE_TIMEOUT}]] : K \in SUBSET MergeKeys}

InitCachify ==
  /\ now = 0
  /\ cache \in {c \in Caches : \A x \in DOMAIN c : c[x].v \in CachedValues(x[2])}
  /\ cur = [NoCall EXCEPT !.state = "waiting", !.address = X1]
  /\ task = [id \in TaskIds |->
               IF id = 1 THEN Spawn("func", X1)
               ELSE IF id = 2 THEN Spawn("get_nickname", X1)
               ELSE NoTask]
  /\ track = "cachify"
  /\ prev = NoPrev
  /\ neg = NoNeg
  /\ late = {}
  /\ redis_cache = "StrictRedis"
  /\ world = NoWorld

\* What the func of a wrapper can return: the func of "func" returns what
\* get_domain returns.
FuncOutcomes(f, address) ==
  Outcomes[IF f = "func" THEN "get_domain" ELSE f, address]

NextCachify ==
  \/ \E id \in CurTasks : CacheGet(id)
  \/ \E id \in CurTasks :
       /\ task[id].pc = "call"
       /\ \E result \in FuncOutcomes(task[id].f, task[id].address) : FuncReturn(id, result)
  \/ \E id \in CurTasks : SetexReturn(id)

SpecCachify == InitCachify /\ [][NextCachify]_vars

\* ================================================================ claims
\* The keys of resolver f as a set
KeySet(f) == {KeyOf(f)[i] : i \in DOMAIN KeyOf(f)}

\* ---------------------------------------------------------------- C1
\* C1: when func returns None the wrapper writes nothing: the step in which
\* a resolver call ends with None ends the greenlet and leaves the cache and
\* the result dict as they were; no greenlet is ever writing a None, and
\* neither the cache nor the result dict ever holds a value that stands for
\* None.
C1_NoneHeld ==
  /\ \A id \in TaskIds : task[id].pc = "setex" => task[id].result.kind \in {"str", "tuple"}
  /\ \A k \in DOMAIN cache : cache[k].v # "None"
  /\ \A k \in DOMAIN cur.result : cur.result[k] # "None"

C1_UnknownWritesNothing ==
  /\ []C1_NoneHeld
  /\ [][\A id \in TaskIds :
          FuncReturn(id, None) =>
            /\ task'[id].pc \in {"done", "none"}
            /\ cache' = cache
            /\ cur'.result = cur.result]_vars

\* A greenlet of the call in progress ended with None; the other one has
\* cached its value.
C1_Witness ==
  /\ cur.state = "waiting"
  /\ \E id \in CurTasks : task[id].pc = "done" /\ task[id].result = None
  /\ cache # <<>>

\* ---------------------------------------------------------------- C2
\* The fields a resolver returns, in the order of its return value:
\* get_domain returns the domain and the x-name, which get_any_name reads as
\* 'name'.
ReturnedFields(f) == IF f = "get_domain" THEN <<"domain", "name">> ELSE <<"nickname">>

\* C2: once the wrapper of a resolver that returned values has come to its
\* end, every field the resolver returned is in the result dict and in the
\* cache (the empty string too).
C2_AllFieldsWritten ==
  \A id \in CurTasks :
    (cur.state = "waiting" /\ task[id].pc = "done"
       /\ task[id].result.kind \in {"str", "tuple"}) =>
      \A i \in DOMAIN tuplify(task[id].result) :
        LET k == ReturnedFields(task[id].f)[i]
        IN /\ k \in DOMAIN cur.result
           /\ CacheKey(cur.address, k) \in DOMAIN cache

\* ---------------------------------------------------------------- C3
\* The greenlets that are running, whatever their slots
RunningBag == [r \in {Rank(task[id]) : id \in RunningIds} |->
                 Cardinality({id \in RunningIds : Rank(task[id]) = r})]

\* C3: a call for an address of ADDRESS_DB returns the mapped name in the
\* step it begins in; the cache and the clock stay as they are, no greenlet
\* is spawned for the call, no resolver is called and the running greenlets
\* of earlier calls stay as they are.
C3_OverrideBypassesAll ==
  [][\A address \in DOMAIN ADDRESS_DB, timeout \in Timeouts :
       Resolve(address, timeout) =>
         /\ cur'.state = "done"
         /\ cur'.ret = ADDRESS_DB[address]
         /\ cache' = cache
         /\ now' = now
         /\ cur'.calls = {} /\ cur'.result = EmptyDict
         /\ \A id \in CurTasks : task'[id] = NoTask
         /\ RunningBag' = RunningBag]_vars

\* A call for a well-known address has returned while the cache holds
\* entries and a greenlet of an earlier call is running.
C3_Witness ==
  /\ cur.how = "override" /\ cur.ret = "Bitstamp"
  /\ cache # <<>>
  /\ RunningIds # {}

\* ---------------------------------------------------------------- C4
\* C4: joinall stops waiting at the deadline at the latest: while the call
\* waits the clock has not passed the deadline, and once the deadline is
\* reached the call can return whatever its greenlets are doing; when it
\* returns with every resolver still running, it returns ''.
C4_AtDeadline ==
  cur.state = "waiting" =>
    /\ now <= cur.deadline
    /\ now >= cur.deadline => ENABLED JoinReturn

AllCached(id) ==
  LET t == task[id]
  IN /\ t.i = Len(KeyOf(t.f))
     /\ \A j \in 1..Len(KeyOf(t.f)) :
          \/ KeyOf(t.f)[j] \in DOMAIN t.cached_result
          \/ j = t.i /\ CacheKey(t.address, KeyOf(t.f)[j]) \in DOMAIN cache

\* C5: when every key of a wrapped resolver is cached (were it with the empty
\* string), the wrapper ends without calling the resolver, and the result
\* dict of its call holds the cached values.
C5_HitSkipsResolver ==
  [][\A id \in TaskIds :
       (CacheGet(id) /\ AllCached(id)) =>
         /\ task'[id].pc \in {"done", "none"}
         /\ task'[id].result = NotCalled
         /\ cache' = cache
         /\ id \in CurTasks =>
              /\ cur'.calls = cur.calls
              /\ \A k \in KeySet(task[id].f) :
                   /\ k \in DOMAIN cur'.result
                   /\ cur'.result[k] = cache[CacheKey(task[id].address, k)].v]_vars

\* A wrapper has returned a cached empty string without calling its resolver.
C5_Witness ==
  /\ cur.state = "waiting"
  /\ \E id \in CurTasks :
       /\ task[id].pc = "done" /\ task[id].result = NotCalled
       /\ \E k \in KeySet(task[id].f) :
            k \in DOMAIN task[id].cached_result /\ task[id].cached_result[k] = ""
       /\ task[id].f \notin cur.calls

\* ---------------------------------------------------------------- C6
\* The order in which the merge looks at the fields
Priority == <<"name", "nickname", "domain">>

\* The places of Priority whose field is in the dict with a non-empty value
NonEmptyAt(result) ==
  {i \in DOMAIN Priority : Priority[i] \in DOMAIN result /\ result[Priority[i]] # ""}

\* C6: whatever the result dict holds when joinall returns, get_any_name
\* returns the first non-empty value in the order name, nickname, domain,
\* and '' when there is none; with a nickname and a domain and no name it
\* returns the nickname.
C6_MergePriority ==
  cur.state = "done" =>
    LET E == NonEmptyAt(cur.result)
    IN /\ E = {} => cur.ret = ""
       /\ E # {} => cur.ret = cur.result[Priority[CHOOSE i \in E : \A j \in E : i <= j]]
       /\ (2 \in E /\ 3 \in E /\ 1 \notin E) => cur.ret = cur.result["nickname"]

\* The merge returned the nickname of a dict that holds a different domain
\* and an empty name.
C6_Witness ==
  /\ cur.state = "done"
  /\ DOMAIN cur.result = MergeKeys
  /\ cur.result["name"] = ""
  /\ cur.result["nickname"] = "~alice"
  /\ cur.result["domain"] = "example.com"
  /\ cur.ret = "~alice"

\* ---------------------------------------------------------------- C7
\* C7: when joinall returns after get_domain was called and returned a
\* domain with a non-empty x-name, get_any_name returns that x-name.
C7_AlternateNameWins ==
  [][(/\ JoinReturn
      /\ \E id \in CurTasks :
           /\ task[id].f = "get_domain" /\ task[id].pc = "done"
           /\ task[id].result.kind = "tuple"
           /\ task[id].result.vals[2] # "")
       => \E id \in CurTasks :
            /\ task[id].result.kind = "tuple"
            /\ cur'.ret = task[id].result.vals[2]]_vars

\* ---------------------------------------------------------------- C8
\* C8: an exception of a resolver ends its greenlet and nothing else: the
\* step in which it is raised leaves the cache and the call as they are, the
\* result dict of the call holds nothing under the keys of a failed
\* greenlet, joinall returns once every greenlet has ended (failed or not),
\* and a call one of whose resolvers raised has returned the merge of its
\* result dict, '' when both raised.
C8_FailureConfined ==
  /\ cur.state = "waiting" =>
       /\ \A id \in CurTasks :
            task[id].pc = "failed" => KeySet(task[id].f) \cap DOMAIN cur.result = {}
       /\ (\A id \in CurTasks : task[id].pc \in {"done", "failed"}) => ENABLED JoinReturn
  /\ (cur.state = "done" /\ cur.raised) =>
       /\ cur.ret \in {""} \cup {cur.result[k] : k \in DOMAIN cur.result}
       /\ cur.calls = Resolvers /\ cur.result = EmptyDict => cur.ret = ""

C8_NeverRaises ==
  /\ []C8_FailureConfined
  /\ [][\A id \in TaskIds :
          FuncReturn(id, Raise) =>
            /\ task'[id].pc \in {"failed", "none"}
            /\ cache' = cache
            /\ cur' = cur]_vars
  /\ [][(JoinReturn /\ \E id \in CurTasks : task[id].pc = "failed") =>
          /\ cur'.state = "done"
          /\ cur'.ret = (IF NonEmptyAt(cur.result) = {} THEN ""
                         ELSE cur.result[Priority[CHOOSE i \in NonEmptyAt(cur.result) :
                                            \A j \in NonEmptyAt(cur.result) : i <= j]])]_vars

\* A call whose get_domain raised has returned the nickname, with every
\* greenlet ended and nothing cached for the domain.
C8_Witness ==
  /\ cur.state = "done" /\ cur.raised /\ cur.how = "joined"
  /\ cur.calls = Resolvers
  /\ cur.ret = "~alice"
  /\ "domain" \notin DOMAIN cur.result
  /\ CacheKey(cur.address, "domain") \notin DOMAIN cache

\* ---------------------------------------------------------------- C9
\* C9 as it is stated: a call that began while the cached negatives of the
\* address were alive and has returned before they expire returned '' and
\* called no resolver.
C9_NegativeStable ==
  (cur.state = "done" /\ cur.after = "live" /\ now < neg.until) =>
    cur.ret = "" /\ cur.calls = {}

\* What the resolvers of the call returned, as get_any_name collects it
Collected ==
  [k \in UNION {KeySet(task[id].f) :
                  id \in {i \in CurTasks : task[i].result.kind \in {"str", "tuple"}}} |->
     LET id == CHOOSE i \in CurTasks : k \in KeySet(task[i].f)
     IN tuplify(task[id].result)[CHOOSE j \in DOMAIN KeyOf(task[id].f) :
                                   KeyOf(task[id].f)[j] = k]]

\* C9, amended: when get_any_name returned '' with both negatives cached and
\* no greenlet of an earlier or of that call was still running, a call that
\* begins before the first of the two entries expires and has returned
\* before it expires returned '' and called no resolver; a call that begins
\* after the entries have expired, with no greenlet running, and whose
\* greenlets all end before its deadline has called both resolvers and
\* returns the merge of the nickname and the domain they returned.
C9_QuietNegatives ==
  (cur.state = "done" /\ cur.after = "live" /\ neg.quiet /\ now < neg.until) =>
    cur.ret = "" /\ cur.calls = {}

C9_NegativeStableWhenQuiet ==
  /\ []C9_QuietNegatives
  /\ [][(JoinReturn /\ cur.after = "expired"
           /\ \A id \in CurTasks : Finished(task[id])) =>
          /\ cur.calls = Resolvers
          /\ \A id \in CurTasks : task[id].result # NotCalled
          /\ cur.result = Collected
          /\ cur'.ret = (IF DictGet(Collected, "nickname") # "" THEN Collected["nickname"]
                         ELSE DictGet(Collected, "domain"))]_vars

\* A call that began while quiet cached negatives were alive has returned ''
\* before they expire, after both its greenlets read the cache.
C9_Witness ==
  /\ cur.state = "done" /\ cur.after = "live" /\ neg.quiet /\ now < neg.until
  /\ cur.how = "joined" /\ cur.ret = "" /\ cur.calls = {}
  /\ DOMAIN cur.result = {"domain", "nickname"}

C10_WarmReturn ==
  /\ (cur.state = "done" /\ cur.warm /\ prev.warm) => cur.calls = {}
  /\ (cur.state = "done" /\ cur.warm /\ prev.warm
        /\ prev.how = "joined" /\ cur.how = "joined") => cur.ret = prev.ret
  /\ cur.warm => \A id \in CurTasks : task[id].pc \notin {"call", "setex", "failed"}

Got(id) ==
  LET t == task[id]
  IN IF t.pc \in {"setex", "done"} /\ t.result.kind \in {"str", "tuple"}
     THEN tuplify(t.result)[1]
     ELSE IF t.pc = "done" /\ KeyOf(t.f)[1] \in DOMAIN t.cached_result
     THEN t.cached_result[KeyOf(t.f)[1]]
     ELSE ""

\* The greenlet has nothing to give: it is still reading the cache or
\* calling its resolver, its resolver returned None, or it raised.
NothingFrom(id) ==
  \/ task[id].pc \in {"get", "call", "failed"}
  \/ task[id].pc = "done" /\ task[id].result = None

\* C11: get_any_name merges only once joinall has returned, that is when
\* both greenlets have ended or the deadline is reached; when one greenlet
\* has put a non-empty value in the dict and the other is still running
\* without a value, got None or raised, the call returns that value, and it
\* never returns anything but '' or a value a greenlet put in the dict.
C11_BestEffort ==
  [][JoinReturn =>
       /\ \/ \A id \in CurTasks : task[id].pc \in {"none", "done", "failed"}
          \/ now >= cur.deadline
       /\ cur'.state = "done"
       /\ cur'.ret \in {""} \cup {Got(id) : id \in CurTasks}
       /\ \A id \in CurTasks : \A o \in CurTasks \ {id} :
            (Got(id) # "" /\ NothingFrom(o)) => cur'.ret = Got(id)]_vars

\* The call returned the nickname at the deadline while get_domain was still
\* being called.
C11_Witness ==
  /\ cur.state = "done" /\ cur.how = "timeout" /\ cur.ret = "~alice"
  /\ task[1].pc = "call" /\ task[1].f = "get_domain"
  /\ task[2].pc = "none"

\* ---------------------------------------------------------------- C12
\* C12: with FakeRedis nothing is ever cached, every cache read misses so
\* that every wrapper goes on to call its resolver, a wrapper that has
\* called its resolver does not call it again, a wrapper past its call has
\* called, and when joinall returns the call returns the merge of what the
\* resolvers have returned so far (the nickname if non-empty, else the
\* domain), as a call that finds a real cache empty does.
C12_NothingKept ==
  /\ cache = <<>>
  /\ cur.state = "waiting" =>
       \A id \in CurTasks :
         task[id].pc \in {"setex", "done", "failed"} =>
           task[id].result # NotCalled /\ task[id].f \in cur.calls

C12_StubCallsResolvers ==
  /\ []C12_NothingKept
  /\ [][\A id \in TaskIds :
          /\ CacheGet(id) => task'[id].pc = "call" /\ task'[id].result = NotCalled
          /\ SetexReturn(id) => task'[id].pc \in {"setex", "done", "none"}
          /\ (/\ task[id].pc = "call"
              /\ \E result \in Outcomes[task[id].f, task[id].address] :
                   FuncReturn(id, result))
               => task'[id].pc \in {"setex", "done", "failed", "none"}]_vars
  /\ [][JoinReturn =>
          /\ cur.result = Collected
          /\ cur'.ret = (IF DictGet(Collected, "nickname") # "" THEN Collected["nickname"]
                         ELSE DictGet(Collected, "domain"))
          /\ (\A id \in CurTasks : Finished(task[id])) => cur.calls = Resolvers]_vars

\* With FakeRedis, a call made after an earlier one for the same address has
\* called both resolvers and returned the domain; nothing is cached.
C12_Witness ==
  /\ redis_cache = "FakeRedis"
  /\ cur.state = "done" /\ cur.how = "joined" /\ cur.calls = Resolvers
  /\ cur.ret = "example.com"
  /\ cur.result = [k \in {"domain", "nickname"} |-> IF k = "domain" THEN "example.com" ELSE ""]
  /\ cache = <<>>
  /\ \E id \in OldTasks : task[id].pc = "setex" /\ task[id].address = cur.address

\* ---------------------------------------------------------------- C13
\* A step of greenlet id: a cache read, the return of its resolver or a
\* cache write.
StepOf(id) ==
  \/ CacheGet(id)
  \/ /\ task[id].pc = "call"
     /\ \E result \in Outcomes[task[id].f, task[id].address] : FuncReturn(id, result)
  \/ SetexReturn(id)

\* C13: once joinall has returned by timeout, no step of a greenlet of that
\* call changes the result dict of the call.
C13_NoWriteAfterTimeout ==
  [][\A id \in CurTasks :
       (cur.state = "done" /\ cur.how = "timeout" /\ StepOf(id)) =>
         cur'.result = cur.result]_vars

\* ---------------------------------------------------------------- C14
\* The cache key greenlet id is reading or writing
KeyAt(id) ==
  LET t == task[id]
  IN CacheKey(t.address,
              IF t.pc = "setex" THEN Zip(KeyOf(t.f), tuplify(t.result))[t.i][1]
              ELSE KeyOf(t.f)[t.i])

\* C14: the return of joinall leaves the running greenlets running; when a
\* greenlet whose call has returned gets values from its resolver, each
\* cache write of it stores the value for CACHE_TIMEOUT seconds; the entry
\* stays until it expires or is written again, and a wrapper of a later call
\* that reads it returns the cached value to its call without calling its
\* resolver.
C14_LateWriteServes ==
  /\ [](late \subseteq DOMAIN cache)
  /\ [][/\ (cur.state = "waiting" /\ cur'.state = "done") =>
             \A id \in TaskIds : Running(task[id]) => task'[id] = task[id]
        /\ \A id \in TaskIds :
             (/\ task[id].pc = "setex"
              /\ id \in OldTasks \/ cur.state # "waiting"
              /\ SetexReturn(id)) =>
               /\ KeyAt(id) \in DOMAIN cache'
               /\ cache'[KeyAt(id)] =
                    [v |-> Zip(KeyOf(task[id].f), tuplify(task[id].result))[task[id].i][2],
                     exp |-> now + CACHE_TIMEOUT]
               /\ task[id].f = "get_nickname" => KeyAt(id) \in late'
        /\ \A id \in CurTasks :
             (/\ task[id].pc = "get" /\ cur.state = "waiting"
              /\ KeyAt(id) \in late
              /\ CacheGet(id)) =>
               /\ task'[id].pc = "done" /\ task'[id].result = NotCalled
               /\ task[id].f \notin cur'.calls
               /\ cur'.result[KeyOf(task[id].f)[task[id].i]] = cache[KeyAt(id)].v]_vars

\* A call has returned the nickname that a greenlet of an earlier call
\* cached after that call had returned; it has not called get_nickname.
C14_Witness ==
  /\ cur.state = "done" /\ cur.how = "joined" /\ cur.ret = "~alice"
  /\ CacheKey(cur.address, "nickname") \in late
  /\ "get_nickname" \notin cur.calls
  /\ DictGet(cur.result, "nickname") = "~alice"

\* ---------------------------------------------------------------- C15
\* The settings request of get_domain succeeded and names a domain.
DomainNamed ==
  /\ world.f = "get_domain"
  /\ ~world.domain.settings.exc /\ world.domain.settings.status_code = 200
  /\ world.domain.json_ok /\ world.domain.success
  /\ world.domain.domain # ""

\* The candidate urls that answered with status c
Answered(c) ==
  {i \in DOMAIN world.domain.txt :
     ~world.domain.txt[i].exc /\ world.domain.txt[i].status_code = c}

\* The candidate urls whose request raised
Errored == {i \in DOMAIN world.domain.txt : world.domain.txt[i].exc}

\* get_domain has returned to its wrapper.
DomainReturned == world.f = "get_domain" /\ task[1].pc # "call"

\* C15: when a domain is named, every candidate url answers and none with
\* 200, get_domain returns ('', '') only if every candidate answered 404,
\* and returns None when some candidate answered with a status other than
\* 200 and 404, whatever the candidates after it answered.
C15_TransientIsUnknown ==
  (DomainReturned /\ DomainNamed /\ Errored = {} /\ Answered(200) = {}) =>
    /\ task[1].result = Tuple(<<"", "">>) => Answered(404) = DOMAIN world.domain.txt
    /\ Answered(500) # {} => task[1].result = None

\* ---------------------------------------------------------------- C16
\* C16: when a domain is named and every candidate url raised or answered
\* 404, at least one of them raising, get_domain returns None and its
\* wrapper writes nothing to the result dict or the cache.
C16_ConnectionErrorIsUnknown ==
  (/\ DomainReturned /\ DomainNamed
   /\ Errored # {}
   /\ Errored \cup Answered(404) = DOMAIN world.domain.txt) =>
    /\ task[1].result = None
    /\ cur.result = EmptyDict
    /\ cache = <<>>

\* ---------------------------------------------------------------- C18
\* C18: get_domain returns a non-empty domain only if the settings name it,
\* a candidate ripple.txt was fetched with status 200 and the ripple.txt
\* lists the address; when a ripple.txt was fetched and does not list the
\* address get_domain returns ('', ''); and unless all three hold, no
\* non-empty domain gets into the result dict or the cache.
C18_Verified ==
  /\ DomainNamed
  /\ Answered(200) # {}
  /\ cur.address \in world.domain.accounts

C18_OnlyVerifiedDomain ==
  DomainReturned =>
    /\ (task[1].result.kind = "tuple" /\ task[1].result.vals[1] # "") =>
         C18_Verified /\ task[1].result.vals[1] = world.domain.domain
    /\ (DomainNamed /\ Answered(200) # {} /\ cur.address \notin world.domain.accounts) =>
         task[1].result = Tuple(<<"", "">>)
    /\ ~C18_Verified =>
         /\ DictGet(cur.result, "domain") = ""
         /\ \A k \in DOMAIN cache : cache[k].v = ""

\* The second candidate ripple.txt was fetched; it lists another account
\* only, and the wrapper has cached the empty domain.
C18_Witness ==
  /\ DomainReturned /\ DomainNamed
  /\ Answered(200) = {2}
  /\ world.domain.accounts = {X2}
  /\ task[1].pc = "done" /\ task[1].result = Tuple(<<"", "">>)
  /\ CacheKey(X1, "domain") \in DOMAIN cache
  /\ cache[CacheKey(X1, "domain")].v = ""

\* ---------------------------------------------------------------- C19
\* get_nickname has returned to its wrapper; its request did not raise.
NicknameReturned ==
  world.f = "get_nickname" /\ task[2].pc # "call" /\ ~world.nickname.user.exc

\* C19: get_nickname returns '~' followed by the username for a 200 answer
\* with a non-empty username, '' for a 200 answer with an empty or absent
\* username, and its wrapper caches either; for an answer with another
\* status it returns None, and nothing is written.
C19_NicknameMapping ==
  NicknameReturned =>
    LET w == world.nickname
        ok == w.user.status_code = 200 /\ w.json_ok
    IN /\ (ok /\ w.username # "") =>
            /\ task[2].result.kind = "str"
            /\ task[2].result.vals = <<"~" \o w.username>>
            /\ task[2].result.vals # <<w.username>>
       /\ (ok /\ w.username = "") => task[2].result = Str("")
       /\ (ok /\ task[2].pc = "done") =>
            /\ CacheKey(X1, "nickname") \in DOMAIN cache
            /\ cache[CacheKey(X1, "nickname")] =
                 [v |-> IF w.username = "" THEN "" ELSE "~" \o w.username,
                  exp |-> CACHE_TIMEOUT]
            /\ cur.result = [k \in {"nickname"} |-> cache[CacheKey(X1, "nickname")].v]
       /\ w.user.status_code # 200 =>
            /\ task[2].result = None /\ task[2].pc = "done"
            /\ cache = <<>> /\ cur.result = EmptyDict

\* A 200 answer without a username: the wrapper has cached ''.
C19_Witness ==
  /\ NicknameReturned
  /\ world.nickname.user.status_code = 200 /\ world.nickname.json_ok
  /\ world.nickname.username = ""
  /\ task[2].pc = "done"
  /\ cache[CacheKey(X1, "nickname")].v = ""

\* ---------------------------------------------------------------- C17
\* The places of the key of greenlet id that are cached, as the read of its
\* last key returns.
CachedAt(id) ==
  LET t == task[id]
  IN {j \in DOMAIN KeyOf(t.f) :
        \/ KeyOf(t.f)[j] \in DOMAIN t.cached_result
        \/ j = t.i /\ CacheKey(t.address, KeyOf(t.f)[j]) \in DOMAIN cache}

\* C17: when the read of the last key of a wrapper returns and some but not
\* all of its keys are cached, the wrapper goes on to call its func.
C17_PartialHitCallsResolver ==
  [][\A id \in CurTasks :
       (/\ task[id].pc = "get" /\ task[id].i = Len(KeyOf(task[id].f))
        /\ CachedAt(id) # {} /\ CachedAt(id) # DOMAIN KeyOf(task[id].f)
        /\ CacheGet(id)) =>
         task'[id].pc = "call"]_vars

\* ---------------------------------------------------------------- C20
\* The result dict differs at key k after the step.
WrittenAt(k) ==
  /\ k \in DOMAIN cur'.result
  /\ k \notin DOMAIN cur.result \/ cur'.result[k] # cur.result[k]

\* C20: the keys of the two wrappers of a call are disjoint; a step of a
\* greenlet of the call changes the result dict of the call only under the
\* keys of its own wrapper, which are not keys of the other; and a step of a
\* greenlet of an earlier call does not change it at all.
C20_DisjointWriters ==
  /\ [](cur.state = "waiting" => KeySet(task[1].f) \cap KeySet(task[2].f) = {})
  /\ [][cur'.result # cur.result =>
          /\ \A id \in CurTasks :
               StepOf(id) =>
                 \A k \in MergeKeys :
                   WrittenAt(k) =>
                     /\ k \in KeySet(task[id].f)
                     /\ \A o \in CurTasks \ {id} :
                          task[o].f # "" => k \notin KeySet(task[o].f)
          /\ \A id \in OldTasks : ~StepOf(id)]_vars

\* Both greenlets of a waiting call have put their value in the result dict.
C20_Witness ==
  /\ cur.state = "waiting"
  /\ cur.result = [k \in {"domain", "nickname"} |->
                     IF k = "domain" THEN "example.com" ELSE "~alice"]
  /\ task[1].result.kind = "tuple" /\ task[2].result.kind = "str"

=============================================================================
